---- MODULE Spec2Model ----
(***************************************************************************)
(* Model of the checkpointed batch-sweep runner scripts/alpha_sweep.py.    *)
(*                                                                         *)
(* State on disk: the output table of every simulation and the JSON        *)
(* checkpoint file.  State of one invocation of the script: the parsed     *)
(* flags, the in-memory checkpoint, the run list and skipped list, the     *)
(* loop position and the counters of run_sweep, the running subprocess.    *)
(* The log file is not modelled (log() only appends text), and neither is  *)
(* --skip-checks, which only guards check_prerequisites(), a function that *)
(* logs and always returns True.  Of a checkpoint entry only 'status' is   *)
(* kept; 'message' is kept as the second component of run_simulation's     *)
(* return value and 'timestamp' is dropped.  Reads and writes of the       *)
(* script's own files (log, checkpoint) are taken to succeed.              *)
(*                                                                         *)
(* The population runner run_population.py and the statistics functions    *)
(* of the analysis scripts are modelled further down, each under its own   *)
(* specification; the variables of the other parts stay at their idle      *)
(* values there.                                                           *)
(***************************************************************************)
EXTENDS Integers, Sequences, FiniteSets, TLC

\* Number of entries of SIMULATIONS that the model covers (a prefix of the list).
NumSims == 2

Sims == 1..NumSims

\* SIMULATIONS, each entry identified by its position in the list.
SIMULATIONS == [k \in 1..NumSims |-> k]

FileStates == {"missing", "invalid", "valid"}
Statuses == {"none", "complete", "failed"}
Outcomes == {"exit0", "nonzero", "timeout", "exception"}

\* A checkpoint dict: sim -> status, "none" when the sim has no entry.
EmptyCheckpoint == [s \in Sims |-> "none"]

NoFiles == [s \in Sims |-> "missing"]

ArgsSet == [resume : BOOLEAN, dry_run : BOOLEAN, analyze_only : BOOLEAN,
            stop_on_error : BOOLEAN, yes : BOOLEAN, analyze : BOOLEAN]

NoArgs == [resume |-> FALSE, dry_run |-> FALSE, analyze_only |-> FALSE,
           stop_on_error |-> FALSE, yes |-> FALSE, analyze |-> FALSE]

NoResult == [success |-> FALSE, message |-> "none"]

Range(seq) == {seq[k] : k \in 1..Len(seq)}

VARIABLES
    files,        \* disk: sim -> state of its output table
    ckptFile,     \* disk: the checkpoint file, [state, data]
    pc,           \* position of the script process
    args,         \* parsed command-line flags
    checkpoint,   \* run_sweep: the checkpoint dict
    to_run,       \* run_sweep: the run list
    skipped,      \* run_sweep: the skipped list
    i,            \* run_sweep: enumerate index of the run loop
    successes,    \* run_sweep: counter
    failures,     \* run_sweep: counter
    sweepResult,  \* return value of run_sweep: "none", "True", "False"
    running,      \* the sim whose subprocess is running, 0 when none
    response,     \* answer given at the confirmation prompt, "none" if not asked
    outcome,      \* how the last simulation subprocess ended
    analysisOutcome, \* how the analysis subprocess ended
    lastResult,   \* return value of the last run_simulation call
    exitCode,     \* exit status of the process, -1 while it has not exited
    started,      \* history: sims for which run_simulation was called
    procStarts,   \* history: number of simulation subprocesses started
    analysisRuns, \* history: number of analysis subprocesses started
    ckptRead,     \* history: the checkpoint file was read
    ckptWrites,   \* history: number of writes of the checkpoint file
    loaded,       \* history: the checkpoint as loaded at the scan
    filesAtScan   \* history: the output files as seen by the scan

\* run_population.py
VARIABLES
    popPc,        \* position in run_population
    binary_grid,  \* argument: the initial conditions, one row per binary
    alpha_CE,     \* argument: CE efficiency, in tenths
    iniFile,      \* disk: contents of population_params.ini
    sim_prop,     \* the simulation properties the binaries are evolved with
    results,      \* the list of result records
    evolved,      \* history: what the library did with each binary so far
    table         \* disk: the persisted result table

popVars == <<popPc, binary_grid, alpha_CE, iniFile, sim_prop, results, evolved,
             table>>

\* run_population.py, create_binary_grid
VARIABLES
    gridPc,       \* position in create_binary_grid
    gridArgs,     \* arguments: the three ranges, metallicities, n_samples
    full_grid,    \* df as built from the nested loops
    grid_out      \* the returned DataFrame

gridVars == <<gridPc, gridArgs, full_grid, grid_out>>

\* wilson_ci of the analysis scripts
VARIABLES
    wilsonPc,      \* position in wilson_ci
    wilsonArgs,    \* the script whose copy is called, k and n
    wilsonResult   \* the returned (lower, upper)

wilsonVars == <<wilsonPc, wilsonArgs, wilsonResult>>

\* bootstrap_analysis.py, bootstrap_rate
VARIABLES
    bootPc,           \* position in bootstrap_rate
    data,             \* the success/failure outcomes
    n_iterations,     \* number of bootstrap samples asked for
    sample,           \* the resample drawn last
    bootstrap_rates,  \* the rates of the resamples so far
    bootResult        \* the returned statistics

bootVars == <<bootPc, data, n_iterations, sample, bootstrap_rates, bootResult>>

\* bootstrap_analysis.py, bootstrap_survival_by_lambda
VARIABLES
    binsPc,        \* position in bootstrap_survival_by_lambda
    ce_data,       \* the CE events: lambda_CE and survived_CE of each
    lambda_bins,   \* the bin edges
    bins_n_iter,   \* n_iterations of this call
    bin,           \* the loop index i, counted from 1
    bin_data,      \* the events of the current bin, by position in ce_data
    bin_rates,     \* bootstrap_rates of the current bin
    bin_results,   \* the rows so far
    counted        \* history: event -> number of bins that counted it

binsVars == <<binsPc, ce_data, lambda_bins, bins_n_iter, bin, bin_data, bin_rates,
              bin_results, counted>>

libVars == <<popVars, gridVars, wilsonVars, bootVars, binsVars>>

sweepState == <<files, ckptFile, pc, args, checkpoint, to_run, skipped, i, successes,
          failures, sweepResult, running, response, outcome, analysisOutcome,
          lastResult, exitCode, started, procStarts, analysisRuns, ckptRead,
          ckptWrites, loaded, filesAtScan>>

vars == <<sweepState, libVars>>

\* What the actions of each part leave alone.
popFrame == <<sweepState, gridVars, wilsonVars, bootVars, binsVars>>
gridFrame == <<sweepState, popVars, wilsonVars, bootVars, binsVars>>
wilsonFrame == <<sweepState, popVars, gridVars, bootVars, binsVars>>
bootFrame == <<sweepState, popVars, gridVars, wilsonVars, binsVars>>
binsFrame == <<sweepState, popVars, gridVars, wilsonVars, bootVars>>

disk == <<files, ckptFile>>
history == <<started, procStarts, analysisRuns, ckptRead, ckptWrites, loaded,
             filesAtScan>>
sweepVars == <<checkpoint, to_run, skipped, i, successes, failures, sweepResult,
               running, response, outcome, lastResult>>

----------------------------------------------------------------------------
\* Pure functions of the script

load_checkpoint(cf) ==
    IF cf.state = "ok" THEN cf.data ELSE EmptyCheckpoint

save_checkpoint(ckpt) == [state |-> "ok", data |-> ckpt]

validate_hdf5(f) == f = "valid"

\* Mutant: the scan never trusts an existing output file.
FileComplete_Never(sim, fs) == FALSE

FileComplete(sim, fs) ==
    fs[sim] # "missing" /\ validate_hdf5(fs[sim])

\* Mutant: any checkpoint entry, whatever its status, counts as complete.
CheckpointComplete_AnyEntry(sim, ckpt) == ckpt[sim] # "none"

CheckpointComplete(sim, ckpt) ==
    ckpt[sim] # "none" /\ ckpt[sim] = "complete"

\* Mutant: the scan forgets the checkpoint test.
IsSkipped_FileOnly(sim, fs, ckpt) == FileComplete(sim, fs)

\* Mutant: the scan forgets the output-file test.
IsSkipped_CheckpointOnly(sim, fs, ckpt) == CheckpointComplete(sim, ckpt)

IsSkipped(sim, fs, ckpt) ==
    FileComplete(sim, fs) \/ CheckpointComplete(sim, ckpt)

ScanToRun(fs, ckpt) ==
    SelectSeq(SIMULATIONS, LAMBDA s : ~IsSkipped(s, fs, ckpt))

ScanSkipped(fs, ckpt) ==
    SelectSeq(SIMULATIONS, LAMBDA s : IsSkipped(s, fs, ckpt))

\* Where run_sweep goes after the scan: "return" (True), "confirm" or "loop".
\* Mutant: run_sweep forgets to return on --dry-run.
AfterScan_NoDryRun(tr, a) ==
    IF Len(tr) = 0 THEN "return"
    ELSE IF ~a.yes THEN "confirm"
    ELSE "loop"

AfterScan(tr, a) ==
    IF Len(tr) = 0 THEN "return"
    ELSE IF a.dry_run THEN "return"
    ELSE IF ~a.yes THEN "confirm"
    ELSE "loop"

run_simulation(oc, f) ==
    CASE oc = "exit0" ->
            IF validate_hdf5(f)
            THEN [success |-> TRUE, message |-> "Success"]
            ELSE [success |-> FALSE, message |-> "Output validation failed"]
      [] oc = "nonzero"   -> [success |-> FALSE, message |-> "Exit code"]
      [] oc = "timeout"   -> [success |-> FALSE, message |-> "Timeout"]
      [] oc = "exception" -> [success |-> FALSE, message |-> "Exception"]

DryRunResult == [success |-> TRUE, message |-> "Dry run - not executed"]

\* Mutant: every attempted simulation is recorded as complete.
StatusOf_AlwaysComplete(res) == "complete"

StatusOf(res) == IF res.success THEN "complete" ELSE "failed"

\* Mutant: the loop stops at the first failure whatever the flags.
ShouldBreak_Always(res, a) == ~res.success

\* Mutant: the loop ignores --stop-on-error.
ShouldBreak_Never(res, a) == FALSE

ShouldBreak(res, a) == ~res.success /\ a.stop_on_error

\* Mutant: run_sweep reports success whatever the failure count.
SweepReturn_AlwaysTrue(f) == "True"

SweepReturn(f) == IF f > 0 THEN "False" ELSE "True"

\* Mutant: main calls run_sweep whatever the flags.
MainRunsSweep_Always(a) == TRUE

MainRunsSweep(a) == ~a.analyze_only

ExitAfterSweep(res, a) == res = "False" /\ ~a.dry_run

MainRunsAnalysis(a) == a.analyze \/ a.analyze_only

run_analysis(oc) == oc = "exit0"

----------------------------------------------------------------------------
SweepIdle ==
    /\ files = NoFiles
    /\ ckptFile = [state |-> "absent", data |-> EmptyCheckpoint]
    /\ pc = "idle"
    /\ args = NoArgs
    /\ checkpoint = EmptyCheckpoint
    /\ to_run = <<>>
    /\ skipped = <<>>
    /\ i = 0
    /\ successes = 0
    /\ failures = 0
    /\ sweepResult = "none"
    /\ running = 0
    /\ response = "none"
    /\ outcome = "none"
    /\ analysisOutcome = "none"
    /\ lastResult = NoResult
    /\ exitCode = -1
    /\ started = <<>>
    /\ procStarts = 0
    /\ analysisRuns = 0
    /\ ckptRead = FALSE
    /\ ckptWrites = 0
    /\ loaded = EmptyCheckpoint
    /\ filesAtScan = NoFiles

NoSimProp == [common_envelope_efficiency |-> 0,
              metallicity |-> [set |-> FALSE, num |-> 0, den |-> 1]]

NoTable == [written |-> FALSE, columns |-> {}, rows |-> <<>>]

PopIdle ==
    /\ popPc = "off"
    /\ binary_grid = <<>>
    /\ alpha_CE = 0
    /\ iniFile = [common_envelope_efficiency |-> 0, mesa_kwargs |-> FALSE]
    /\ sim_prop = NoSimProp
    /\ results = <<>>
    /\ evolved = <<>>
    /\ table = NoTable

NoGridArgs == [M1_range |-> <<0, 0, 0>>, M2_range |-> <<0, 0, 0>>,
               P_range |-> <<0, 0, 0>>, metallicities |-> <<>>,
               n_samples |-> [given |-> FALSE, n |-> 0]]

GridIdle ==
    /\ gridPc = "off"
    /\ gridArgs = NoGridArgs
    /\ full_grid = <<>>
    /\ grid_out = <<>>

Zero == [kind |-> "zero"]

NoInterval == [lower |-> [pct |-> Zero], upper |-> [pct |-> Zero]]

WilsonIdle ==
    /\ wilsonPc = "off"
    /\ wilsonArgs = [script |-> "none", k |-> 0, n |-> 0]
    /\ wilsonResult = NoInterval

NoStats == [status |-> "none",
            mean |-> [num |-> 0, den |-> 1],
            std |-> [sqrtOf |-> [num |-> 0, den |-> 1]],
            CI_low |-> [num |-> 0, den |-> 1],
            CI_high |-> [num |-> 0, den |-> 1]]

BootIdle ==
    /\ bootPc = "off"
    /\ data = <<>>
    /\ n_iterations = 0
    /\ sample = <<>>
    /\ bootstrap_rates = <<>>
    /\ bootResult = NoStats

BinsIdle ==
    /\ binsPc = "off"
    /\ ce_data = <<>>
    /\ lambda_bins = <<>>
    /\ bins_n_iter = 0
    /\ bin = 0
    /\ bin_data = <<>>
    /\ bin_rates = <<>>
    /\ bin_results = <<>>
    /\ counted = <<>>

LibIdle == PopIdle /\ GridIdle /\ WilsonIdle /\ BootIdle /\ BinsIdle

Init == SweepIdle /\ LibIdle

\* The script is invoked with some combination of flags.
Invoke ==
    /\ pc = "idle"
    /\ \E a \in ArgsSet : args' = a
    /\ pc' = "main"
    /\ UNCHANGED <<disk, sweepVars, analysisOutcome, exitCode, history>>
    /\ UNCHANGED libVars

\* Between invocations an output table is removed or damaged.
EnvChangeOutput ==
    /\ pc = "idle"
    /\ \E s \in Sims, f \in {"missing", "invalid"} :
          /\ files[s] # f
          /\ files' = [files EXCEPT ![s] = f]
    /\ UNCHANGED <<ckptFile, pc, args, sweepVars, analysisOutcome, exitCode, history>>
    /\ UNCHANGED libVars

\* main: run the sweep unless --analyze-only.
Main_Dispatch ==
    /\ pc = "main"
    /\ pc' = IF MainRunsSweep(args) THEN "sweep" ELSE "post"
    /\ UNCHANGED <<disk, args, sweepVars, analysisOutcome, exitCode, history>>
    /\ UNCHANGED libVars

\* run_sweep: load the checkpoint, scan the simulation list, plan.
RunSweep_Scan ==
    /\ pc = "sweep"
    /\ LET ckpt == IF args.resume THEN load_checkpoint(ckptFile) ELSE EmptyCheckpoint
           tr == ScanToRun(files, ckpt)
           next == AfterScan(tr, args)
       IN /\ checkpoint' = ckpt
          /\ loaded' = ckpt
          /\ ckptRead' = args.resume
          /\ filesAtScan' = files
          /\ to_run' = tr
          /\ skipped' = ScanSkipped(files, ckpt)
          /\ pc' = IF next = "return" THEN "ret" ELSE next
          /\ sweepResult' = IF next = "return" THEN "True" ELSE sweepResult
          /\ i' = IF next = "loop" THEN 1 ELSE i
    /\ UNCHANGED <<disk, args, successes, failures, running, response, outcome,
                   analysisOutcome, lastResult, exitCode, started, procStarts,
                   analysisRuns, ckptWrites>>
    /\ UNCHANGED libVars

\* run_sweep: the confirmation prompt.
RunSweep_Confirm ==
    /\ pc = "confirm"
    /\ \E r \in {"y", "n"} :
          /\ response' = r
          /\ IF r # "y"
             THEN /\ pc' = "ret"
                  /\ sweepResult' = "False"
                  /\ i' = i
             ELSE /\ pc' = "loop"
                  /\ sweepResult' = sweepResult
                  /\ i' = 1
    /\ UNCHANGED <<disk, args, checkpoint, to_run, skipped, successes, failures,
                   running, outcome, analysisOutcome, lastResult, exitCode, history>>
    /\ UNCHANGED libVars

\* run_sweep loop: call run_simulation for to_run[i]; it starts the subprocess
\* unless dry_run.
StartSimulation ==
    /\ pc = "loop"
    /\ i <= Len(to_run)
    /\ started' = Append(started, to_run[i])
    /\ IF args.dry_run
       THEN /\ lastResult' = DryRunResult
            /\ pc' = "record"
            /\ UNCHANGED <<running, procStarts>>
       ELSE /\ running' = to_run[i]
            /\ procStarts' = procStarts + 1
            /\ pc' = "running"
            /\ UNCHANGED lastResult
    /\ UNCHANGED <<disk, args, checkpoint, to_run, skipped, i, successes, failures,
                   sweepResult, response, outcome, analysisOutcome, exitCode,
                   analysisRuns, ckptRead, ckptWrites, loaded, filesAtScan>>
    /\ UNCHANGED libVars

\* subprocess.run returns or raises; run_simulation computes its result.
SimulationEnds ==
    /\ pc = "running"
    /\ \E oc \in Outcomes, f \in FileStates :
          /\ oc = "exception" => f = files[running]
          /\ outcome' = oc
          /\ files' = [files EXCEPT ![running] = f]
          /\ lastResult' = run_simulation(oc, f)
    /\ running' = 0
    /\ pc' = "record"
    /\ UNCHANGED <<ckptFile, args, checkpoint, to_run, skipped, i, successes,
                   failures, sweepResult, response, analysisOutcome, exitCode,
                   history>>
    /\ UNCHANGED libVars

\* run_sweep loop: update and save the checkpoint, count, break or go on.
RecordResult ==
    /\ pc = "record"
    /\ checkpoint' = [checkpoint EXCEPT ![to_run[i]] = StatusOf(lastResult)]
    /\ ckptFile' = save_checkpoint(checkpoint')
    /\ ckptWrites' = ckptWrites + 1
    /\ successes' = IF lastResult.success THEN successes + 1 ELSE successes
    /\ failures' = IF lastResult.success THEN failures ELSE failures + 1
    /\ IF ShouldBreak(lastResult, args) \/ i = Len(to_run)
       THEN pc' = "summary" /\ i' = i
       ELSE pc' = "loop" /\ i' = i + 1
    /\ UNCHANGED <<files, args, to_run, skipped, sweepResult, running, response,
                   outcome, analysisOutcome, lastResult, exitCode, started,
                   procStarts, analysisRuns, ckptRead, loaded, filesAtScan>>
    /\ UNCHANGED libVars

\* run_sweep: final summary and return value.
RunSweep_Summary ==
    /\ pc = "summary"
    /\ sweepResult' = SweepReturn(failures)
    /\ pc' = "ret"
    /\ UNCHANGED <<disk, args, checkpoint, to_run, skipped, i, successes, failures,
                   running, response, outcome, analysisOutcome, lastResult,
                   exitCode, history>>
    /\ UNCHANGED libVars

\* main: exit 1 after an incomplete sweep unless --dry-run.
Main_AfterSweep ==
    /\ pc = "ret"
    /\ IF ExitAfterSweep(sweepResult, args)
       THEN pc' = "done" /\ exitCode' = 1
       ELSE pc' = "post" /\ exitCode' = exitCode
    /\ UNCHANGED <<disk, args, sweepVars, analysisOutcome, history>>
    /\ UNCHANGED libVars

\* main: start the analysis subprocess if requested, else finish.
Main_Analysis ==
    /\ pc = "post"
    /\ IF MainRunsAnalysis(args)
       THEN /\ pc' = "analysis"
            /\ analysisRuns' = analysisRuns + 1
            /\ exitCode' = exitCode
       ELSE /\ pc' = "done"
            /\ analysisRuns' = analysisRuns
            /\ exitCode' = 0
    /\ UNCHANGED <<disk, args, sweepVars, analysisOutcome, started, procStarts,
                   ckptRead, ckptWrites, loaded, filesAtScan>>
    /\ UNCHANGED libVars

\* run_analysis: the analysis subprocess ends; main exits.
AnalysisEnds ==
    /\ pc = "analysis"
    /\ \E oc \in Outcomes :
          /\ analysisOutcome' = oc
          /\ exitCode' = IF run_analysis(oc) THEN 0 ELSE 1
    /\ pc' = "done"
    /\ UNCHANGED <<disk, args, sweepVars, history>>
    /\ UNCHANGED libVars

\* The process is gone; only the disk remains.
Exit ==
    /\ pc = "done"
    /\ pc' = "idle"
    /\ args' = NoArgs
    /\ checkpoint' = EmptyCheckpoint
    /\ to_run' = <<>>
    /\ skipped' = <<>>
    /\ i' = 0
    /\ successes' = 0
    /\ failures' = 0
    /\ sweepResult' = "none"
    /\ running' = 0
    /\ response' = "none"
    /\ outcome' = "none"
    /\ analysisOutcome' = "none"
    /\ lastResult' = NoResult
    /\ exitCode' = -1
    /\ started' = <<>>
    /\ procStarts' = 0
    /\ analysisRuns' = 0
    /\ ckptRead' = FALSE
    /\ ckptWrites' = 0
    /\ loaded' = EmptyCheckpoint
    /\ filesAtScan' = NoFiles
    /\ UNCHANGED disk
    /\ UNCHANGED libVars

Next ==
    \/ Invoke
    \/ EnvChangeOutput
    \/ Main_Dispatch
    \/ RunSweep_Scan
    \/ RunSweep_Confirm
    \/ StartSimulation
    \/ SimulationEnds
    \/ RecordResult
    \/ RunSweep_Summary
    \/ Main_AfterSweep
    \/ Main_Analysis
    \/ AnalysisEnds
    \/ Exit

Spec == Init /\ [][Next]_vars

----------------------------------------------------------------------------
\* Claims

\* C1: under --resume, a simulation whose entry in the loaded checkpoint has
\* status 'complete' is put in the skipped list, not in the run list, and
\* run_simulation is never called for it in that invocation.
C1_ResumeSkipsComplete ==
    \A s \in Sims :
        (args.resume /\ loaded[s] = "complete") =>
            /\ s \in Range(skipped)
            /\ s \notin Range(to_run)
            /\ s \notin Range(started)
            /\ running # s

\* C1 witness: a resumed invocation has finished after running some simulation,
\* while a simulation marked complete, whose output is not valid, was skipped.
C1_Witness ==
    /\ pc = "done"
    /\ args.resume
    /\ Len(started) > 0
    /\ \E s \in Sims : /\ loaded[s] = "complete"
                       /\ filesAtScan[s] # "valid"
                       /\ s \in Range(skipped)

\* C2: a simulation whose output file exists and validates at the scan is
\* skipped (in the skipped list, not in the run list, never run) in every
\* invocation that scans, with or without --resume, whatever its checkpoint
\* entry.
C2_ValidOutputSkipped ==
    \A s \in Sims :
        filesAtScan[s] = "valid" =>
            /\ s \in Range(skipped)
            /\ s \notin Range(to_run)
            /\ s \notin Range(started)
            /\ running # s

\* C2 witness: an invocation without --resume has scanned and has simulations
\* to run, having skipped one whose output validated although the checkpoint
\* file on disk says 'failed' for it.
C2_Witness ==
    /\ pc = "confirm"
    /\ ~args.resume
    /\ Len(to_run) > 0
    /\ \E s \in Sims : /\ filesAtScan[s] = "valid"
                       /\ ckptFile.data[s] = "failed"
                       /\ s \in Range(skipped)

\* C3: a simulation whose output file exists but fails validation at the scan
\* is placed in the run list, for every combination of flags and checkpoint
\* contents.
C3_InvalidOutputRerun ==
    \A s \in Sims :
        filesAtScan[s] = "invalid" => s \in Range(to_run)

\* run_sweep has returned (or was not called) in this invocation.
SweepOver == pc \in {"ret", "post", "analysis", "done"}

\* The elements of a sequence of sims are in the order of SIMULATIONS, no repeats.
InListOrder(seq) ==
    \A j, k \in 1..Len(seq) : j < k => seq[j] < seq[k]

\* C4, as stated: without --stop-on-error, every simulation in the run list is
\* attempted exactly once, in the order of SIMULATIONS, whatever the outcomes
\* of the earlier ones.
C4_Original ==
    (SweepOver /\ ~args.stop_on_error) =>
        (started = to_run /\ InListOrder(started))

\* C4, amended: without --stop-on-error, in an invocation that is not a dry
\* run and whose run was confirmed (--yes, or 'y' at the prompt), every
\* simulation in the run list is attempted exactly once, in the order of
\* SIMULATIONS, whatever the outcomes of the earlier ones.
C4_ContinueOnFailure ==
    (/\ SweepOver
     /\ ~args.stop_on_error
     /\ ~args.dry_run
     /\ (args.yes \/ response = "y")) =>
        (started = to_run /\ InListOrder(started))

\* C4 witness: a sweep without --stop-on-error has ended having attempted the
\* whole run list although its first simulation failed.
C4_Witness ==
    /\ pc = "done"
    /\ ~args.stop_on_error
    /\ Len(to_run) >= 2
    /\ checkpoint[to_run[1]] = "failed"
    /\ started = to_run

C6_DryRunNoEffect ==
    args.dry_run =>
        /\ procStarts = 0
        /\ running = 0
        /\ ckptWrites = 0

\* C6 witness: a dry run with a non-empty run list and an existing checkpoint
\* file has finished.
C6_Witness ==
    /\ pc = "done"
    /\ args.dry_run
    /\ ~args.analyze_only
    /\ Len(to_run) > 0
    /\ ckptFile.state = "ok"

\* C7: in an invocation with --dry-run the analysis subprocess is not
\* started, including when --analyze is also given.
C7_DryRunNoAnalysis ==
    args.dry_run => (analysisRuns = 0 /\ pc # "analysis")

\* C8: with --analyze-only, run_sweep is not called: no simulation is run,
\* the checkpoint file is neither read nor written; the analysis subprocess
\* is started exactly once and the exit status is 1 iff the analysis fails.
C8_AnalyzeOnly ==
    args.analyze_only =>
        /\ pc \in {"main", "post", "analysis", "done"}
        /\ started = <<>>
        /\ procStarts = 0
        /\ ~ckptRead
        /\ ckptWrites = 0
        /\ analysisRuns <= 1
        /\ pc \in {"analysis", "done"} => analysisRuns = 1
        /\ pc = "done" => /\ exitCode \in {0, 1}
                          /\ exitCode = 1 <=> analysisOutcome # "exit0"

\* C8 witness: an --analyze-only invocation, given --resume too with a
\* checkpoint file on disk, has exited with status 1 after a failed analysis.
C8_Witness ==
    /\ pc = "done"
    /\ args.analyze_only
    /\ args.resume
    /\ ckptFile.state = "ok"
    /\ analysisOutcome = "timeout"
    /\ exitCode = 1

\* Every simulation has a valid output file or is marked complete in the
\* checkpoint, and no simulation is running.
SimulationsComplete ==
    /\ running = 0
    /\ \A s \in Sims : files[s] = "valid" \/ checkpoint[s] = "complete"

\* C9, as stated: with --analyze in a non-dry-run invocation, when the
\* analysis subprocess is started no simulation is running and every
\* simulation has a validated output file or is marked 'complete' in the
\* checkpoint; after a sweep with a failed simulation it is never started.
C9_Original ==
    (args.analyze /\ ~args.dry_run) =>
        /\ analysisRuns > 0 => SimulationsComplete
        /\ failures > 0 => analysisRuns = 0

\* C9, amended: the same, for an invocation with --analyze that is neither a
\* dry run nor --analyze-only.
C9_AnalyzeAfterSweep ==
    (args.analyze /\ ~args.dry_run /\ ~args.analyze_only) =>
        /\ analysisRuns > 0 => SimulationsComplete
        /\ failures > 0 => analysisRuns = 0

\* C9 witness: the analysis is running after a sweep that skipped one
\* simulation and ran another one successfully.
C9_Witness ==
    /\ pc = "analysis"
    /\ args.analyze
    /\ ~args.dry_run
    /\ ~args.analyze_only
    /\ Len(skipped) > 0
    /\ successes > 0

----------------------------------------------------------------------------
\* run_population.py: evolving a grid of binaries into a result table.
\* Metallicities are in units of 0.001, CE efficiencies in tenths; a fraction
\* is a record [num, den].

\* Longest binary grid of the model.
MaxGrid == 3

\* The solar metallicity 0.014 that setup_simulation_properties divides by.
Solar == 14

\* Default value of setup_simulation_properties' parameter metallicity.
DefaultMetallicity == 14

MetallicityValues == {1, 14}
AlphaValues == {10, 20}

GridRow(z) == [M1 |-> 10, M2 |-> 8, P_orb |-> 50, Z |-> z, q |-> <<8, 10>>]

Grids == UNION {[1..n -> {GridRow(z) : z \in MetallicityValues}] : n \in 0..MaxGrid}

IniFiles == [common_envelope_efficiency : AlphaValues, mesa_kwargs : BOOLEAN]

\* What the library returns for a binary: it raises, or an evolved binary.
Evolutions ==
    {[raises |-> TRUE, ce |-> FALSE, state |-> "none"]}
    \cup [raises : {FALSE}, ce : BOOLEAN, state : {"detached", "merged"}]

Bool(b) == IF b THEN "True" ELSE "False"

FullFields == {"M1_initial", "M2_initial", "P_initial", "Z", "q_initial",
               "CE_occurred", "lambda_CE", "donor_state", "survived_CE",
               "final_state", "final_M1", "final_M2", "final_P"}

ErrorFields == {"M1_initial", "M2_initial", "P_initial", "Z", "error"}

\* The metallicity and alpha_CE parameters; alpha_CE is not read by the body.
setup_simulation_properties(metallicity, alpha, ini) ==
    [common_envelope_efficiency |-> ini.common_envelope_efficiency,
     metallicity |-> IF ini.mesa_kwargs
                     THEN [set |-> TRUE, num |-> metallicity, den |-> Solar]
                     ELSE [set |-> FALSE, num |-> 0, den |-> 1]]

\* run_population's call: setup_simulation_properties(alpha_CE=alpha_CE).
RunPopulationSetup(alpha, ini) ==
    setup_simulation_properties(DefaultMetallicity, alpha, ini)

\* Mutant: the survival flag defaults to None and is set only on a CE event.
extract_CE_data_NoneDefault(binary, row) ==
    [M1_initial |-> row.M1, M2_initial |-> row.M2, P_initial |-> row.P_orb,
     Z |-> row.Z, q_initial |-> row.q,
     CE_occurred |-> Bool(binary.ce),
     lambda_CE |-> IF binary.ce THEN "value" ELSE "NaN",
     donor_state |-> IF binary.ce THEN "state" ELSE "None",
     survived_CE |-> IF binary.ce
                     THEN Bool(binary.state \notin {"merged", "initial_RLOF", "disrupted"})
                     ELSE "None",
     final_state |-> binary.state,
     final_M1 |-> "value", final_M2 |-> "value", final_P |-> "value"]

extract_CE_data(binary, row) ==
    [M1_initial |-> row.M1, M2_initial |-> row.M2, P_initial |-> row.P_orb,
     Z |-> row.Z, q_initial |-> row.q,
     CE_occurred |-> Bool(binary.ce),
     lambda_CE |-> IF binary.ce THEN "value" ELSE "NaN",
     donor_state |-> IF binary.ce THEN "state" ELSE "None",
     survived_CE |-> Bool(binary.ce /\ binary.state \notin {"merged", "initial_RLOF", "disrupted"}),
     final_state |-> binary.state,
     final_M1 |-> "value", final_M2 |-> "value", final_P |-> "value"]

ErrorRecord(row) ==
    [M1_initial |-> row.M1, M2_initial |-> row.M2, P_initial |-> row.P_orb,
     Z |-> row.Z, error |-> "message"]

\* Mutant: the except branch only reports the error.
AppendResult_SkipErrors(res, ev, row) ==
    IF ev.raises THEN res ELSE Append(res, extract_CE_data(ev, row))

\* One pass of the loop body: the try block, or the except branch.
AppendResult(res, ev, row) ==
    IF ev.raises
    THEN Append(res, ErrorRecord(row))
    ELSE Append(res, extract_CE_data(ev, row))

\* pd.DataFrame(list of dicts): the columns are the union of the keys, a key
\* missing from a record is NaN in its row.
DataFrame(recs) ==
    LET cols == UNION {DOMAIN recs[k] : k \in 1..Len(recs)}
    IN [written |-> TRUE,
        columns |-> cols,
        rows |-> [k \in 1..Len(recs) |->
                    [c \in cols |-> IF c \in DOMAIN recs[k] THEN recs[k][c] ELSE "NaN"]]]

PopInit ==
    /\ SweepIdle
    /\ GridIdle
    /\ WilsonIdle
    /\ BootIdle
    /\ BinsIdle
    /\ popPc = "setup"
    /\ binary_grid \in Grids
    /\ alpha_CE \in AlphaValues
    /\ iniFile \in IniFiles
    /\ sim_prop = NoSimProp
    /\ results = <<>>
    /\ evolved = <<>>
    /\ table = NoTable

\* run_population: set up the simulation properties and load the steps.
Pop_Setup ==
    /\ popPc = "setup"
    /\ sim_prop' = RunPopulationSetup(alpha_CE, iniFile)
    /\ popPc' = "loop"
    /\ UNCHANGED <<binary_grid, alpha_CE, iniFile, results, evolved, table>>
    /\ UNCHANGED popFrame

\* run_population loop: evolve the next binary and append its record.
Pop_Evolve ==
    /\ popPc = "loop"
    /\ Len(evolved) < Len(binary_grid)
    /\ \E ev \in Evolutions :
          /\ evolved' = Append(evolved, ev)
          /\ results' = AppendResult(results, ev, binary_grid[Len(evolved) + 1])
    /\ UNCHANGED <<popPc, binary_grid, alpha_CE, iniFile, sim_prop, table>>
    /\ UNCHANGED popFrame

\* run_population: build the DataFrame and persist it.
Pop_Save ==
    /\ popPc = "loop"
    /\ Len(evolved) = Len(binary_grid)
    /\ table' = DataFrame(results)
    /\ popPc' = "done"
    /\ UNCHANGED <<binary_grid, alpha_CE, iniFile, sim_prop, results, evolved>>
    /\ UNCHANGED popFrame

PopNext == Pop_Setup \/ Pop_Evolve \/ Pop_Save

SpecPop == PopInit /\ [][PopNext]_vars

\* C12: run_population produces exactly one result record per row of the
\* input grid, in grid order, also for binaries whose evolution or extraction
\* raises; the persisted table has as many rows as the grid.
C12_OneRecordPerRow ==
    /\ Len(results) = Len(evolved)
    /\ \A k \in 1..Len(results) :
          /\ results[k].M1_initial = binary_grid[k].M1
          /\ results[k].M2_initial = binary_grid[k].M2
          /\ results[k].P_initial = binary_grid[k].P_orb
          /\ results[k].Z = binary_grid[k].Z
    /\ popPc = "done" =>
          /\ Len(results) = Len(binary_grid)
          /\ table.written
          /\ Len(table.rows) = Len(binary_grid)
          /\ \A k \in 1..Len(binary_grid) : table.rows[k].Z = binary_grid[k].Z

\* C12 witness: a table was persisted for a grid of two metallicities in
\* which one binary raised and a later one evolved.
C12_Witness ==
    /\ popPc = "done"
    /\ Len(binary_grid) >= 2
    /\ evolved[1].raises
    /\ ~evolved[2].raises
    /\ binary_grid[1].Z # binary_grid[2].Z
    /\ Len(table.rows) = Len(binary_grid)

Flags == {"True", "False"}

\* C13, as stated: every record of a persisted result table carries the full
\* set of record fields with a boolean CE-occurred flag and a boolean survival
\* flag, also the records of binaries whose evolution failed.
C13_Original ==
    table.written =>
        \A k \in 1..Len(table.rows) :
            /\ FullFields \subseteq DOMAIN table.rows[k]
            /\ table.rows[k].CE_occurred \in Flags
            /\ table.rows[k].survived_CE \in Flags

\* C13, amended: in a persisted result table, the record of a binary whose
\* evolution and extraction succeeded carries the full set of record fields
\* with a boolean CE-occurred flag and a boolean survival flag; the record of
\* a binary whose evolution failed carries the initial masses, the period, the
\* metallicity and an error message, and all its other fields, both flags
\* included, are missing.
C13_RecordFields ==
    table.written =>
        \A k \in 1..Len(table.rows) :
            IF evolved[k].raises
            THEN /\ ErrorFields \subseteq DOMAIN table.rows[k]
                 /\ table.rows[k].error # "NaN"
                 /\ \A c \in (DOMAIN table.rows[k]) \ ErrorFields :
                       table.rows[k][c] = "NaN"
            ELSE /\ FullFields \subseteq DOMAIN table.rows[k]
                 /\ table.rows[k].CE_occurred \in Flags
                 /\ table.rows[k].survived_CE \in Flags
                 /\ table.rows[k].CE_occurred = Bool(evolved[k].ce)

\* C13 witness: a persisted table holds the record of a binary that failed
\* next to the record of one that went through a CE event.
C13_Witness ==
    /\ table.written
    /\ \E j, k \in 1..Len(table.rows) :
          /\ evolved[j].raises
          /\ ~evolved[k].raises
          /\ table.rows[k].CE_occurred = "True"
          /\ table.rows[j].CE_occurred = "NaN"

\* C14: two population runs that differ only in alpha_CE are evolved with
\* simulation properties that differ in the CE efficiency parameter.
C14_AlphaDetermines ==
    popPc \in {"loop", "done"} =>
        \A a \in AlphaValues \ {alpha_CE} :
            RunPopulationSetup(a, iniFile).common_envelope_efficiency
                # sim_prop.common_envelope_efficiency

\* C15: each binary of a population run is evolved with simulation properties
\* whose grid-step metallicity equals that binary's Z divided by 0.014.
C15_MetallicityPerBinary ==
    \A k \in 1..Len(evolved) :
        /\ sim_prop.metallicity.set
        /\ sim_prop.metallicity.num * Solar
              = binary_grid[k].Z * sim_prop.metallicity.den

----------------------------------------------------------------------------
\* run_population.py: create_binary_grid.

\* Largest n_samples of the model.
MaxSamples == 2

\* Numbers of points per axis that the model passes.
AxisSamples == {1, 2}

GridArgsSet ==
    [M1_range : {<<10, 20, n>> : n \in AxisSamples},
     M2_range : {<<8, 15, n>> : n \in AxisSamples},
     P_range : {<<50, 500, n>> : n \in AxisSamples},
     metallicities : {<<1>>, <<1, 14>>},
     n_samples : {[given |-> FALSE, n |-> 0]}
                 \cup [given : {TRUE}, n : 0..MaxSamples]]

\* np.linspace(lo, hi, n): n evenly spaced points from lo to hi, as fractions.
Linspace(range) ==
    LET lo == range[1]
        hi == range[2]
        n == range[3]
    IN [k \in 1..n |->
          IF n = 1 THEN [num |-> lo, den |-> 1]
          ELSE [num |-> lo * (n - 1) + (k - 1) * (hi - lo), den |-> n - 1]]

\* np.logspace(log10(lo), log10(hi), n): the k-th point is lo^(1-f) * hi^f
\* with f = (k-1)/(n-1); kept as lo, hi and f.
Logspace(range) ==
    LET n == range[3]
    IN [k \in 1..n |->
          [lo |-> range[1], hi |-> range[2],
           num |-> k - 1, den |-> IF n = 1 THEN 1 ELSE n - 1]]

\* a >= b for fractions with positive denominators.
FracGeq(a, b) == a.num * b.den >= b.num * a.den

\* The nested loops over Z, M1, M2 (kept when M1 >= M2) and P, in loop order;
\* each row carries its DataFrame index.
BuildGrid(a) ==
    LET M1_grid == Linspace(a.M1_range)
        M2_grid == Linspace(a.M2_range)
        P_grid == Logspace(a.P_range)
        nz == Len(a.metallicities)
        n1 == Len(M1_grid)
        n2 == Len(M2_grid)
        np == Len(P_grid)
        Tuple(k) ==
            [z |-> ((k - 1) \div (n1 * n2 * np)) + 1,
             a1 |-> (((k - 1) \div (n2 * np)) % n1) + 1,
             a2 |-> (((k - 1) \div np) % n2) + 1,
             p |-> ((k - 1) % np) + 1]
        all == [k \in 1..(nz * n1 * n2 * np) |-> Tuple(k)]
        kept == SelectSeq(all, LAMBDA u : FracGeq(M1_grid[u.a1], M2_grid[u.a2]))
    IN [k \in 1..Len(kept) |->
          [index |-> k - 1,
           M1 |-> M1_grid[kept[k].a1],
           M2 |-> M2_grid[kept[k].a2],
           P_orb |-> P_grid[kept[k].p],
           Z |-> a.metallicities[kept[k].z],
           q |-> [num |-> M2_grid[kept[k].a2].num * M1_grid[kept[k].a1].den,
                  den |-> M2_grid[kept[k].a2].den * M1_grid[kept[k].a1].num]]]

\* if n_samples and n_samples < len(df)
SampleApplies(ns, df) == ns.given /\ ns.n # 0 /\ ns.n < Len(df)

\* Mutant: rows are drawn with replacement.
Samples_WithReplacement(df, n) ==
    {[k \in 1..n |-> df[f[k]]] : f \in [1..n -> 1..Len(df)]}

\* df.sample(n): n rows drawn without replacement, in the order drawn.
Samples(df, n) ==
    {[k \in 1..n |-> df[f[k]]] :
        f \in {g \in [1..n -> 1..Len(df)] :
                 \A j, k \in 1..n : j # k => g[j] # g[k]}}

GridInit ==
    /\ SweepIdle
    /\ PopIdle
    /\ WilsonIdle
    /\ BootIdle
    /\ BinsIdle
    /\ gridPc = "build"
    /\ gridArgs \in GridArgsSet
    /\ full_grid = <<>>
    /\ grid_out = <<>>

\* create_binary_grid: generate the axes and build the DataFrame.
Grid_Build ==
    /\ gridPc = "build"
    /\ full_grid' = BuildGrid(gridArgs)
    /\ gridPc' = "sample"
    /\ UNCHANGED <<gridArgs, grid_out>>
    /\ UNCHANGED gridFrame

\* create_binary_grid: random sampling if requested, and return.
Grid_Return ==
    /\ gridPc = "sample"
    /\ IF SampleApplies(gridArgs.n_samples, full_grid)
       THEN grid_out' \in Samples(full_grid, gridArgs.n_samples.n)
       ELSE grid_out' = full_grid
    /\ gridPc' = "returned"
    /\ UNCHANGED <<gridArgs, full_grid>>
    /\ UNCHANGED gridFrame

GridNext == Grid_Build \/ Grid_Return

SpecGrid == GridInit /\ [][GridNext]_vars

\* The rows of a grid are distinct rows of the full grid.
DistinctRowsOfFull(g) ==
    /\ \A k \in 1..Len(g) : \E j \in 1..Len(full_grid) : g[k] = full_grid[j]
    /\ \A j, k \in 1..Len(g) : j # k => g[j].index # g[k].index

----------------------------------------------------------------------------
\* final_analysis.py, analyze_alpha_sweep.py, physics_analysis.py: wilson_ci.
\* The three copies have the same body.  The interval is computed over the
\* reals: a bound is kept as the expression that defines it, and compared with
\* a rational through the property that defines the expression.

\* Largest number of trials of the model.
MaxN == 6

\* alpha = 0.05 = 1/AlphaDen, the default every caller uses.
AlphaDen == 20

WilsonScripts == {"final_analysis", "analyze_alpha_sweep", "physics_analysis"}

WilsonArgsSet ==
    {a \in [script : WilsonScripts, k : 0..MaxN, n : 0..MaxN] : a.k <= a.n}

RECURSIVE Pow(_, _)
Pow(b, e) == IF e = 0 THEN 1 ELSE b * Pow(b, e - 1)

RECURSIVE Binomial(_, _)
Binomial(m, j) ==
    IF j = 0 \/ j = m THEN 1 ELSE Binomial(m - 1, j - 1) + Binomial(m - 1, j)

RECURSIVE SumFrom(_, _, _)
SumFrom(f, lo, hi) == IF lo > hi THEN 0 ELSE f[lo] + SumFrom(f, lo + 1, hi)

\* d^m times the regularised incomplete beta function I_x(a, m-a+1) at
\* x = p/d, which for whole a is the probability that a binomial of m trials
\* with success probability x has at least a successes.
BinTail(m, a, p, d) ==
    SumFrom([j \in a..m |-> Binomial(m, j) * Pow(p, j) * Pow(d - p, m - j)],
            a, m)

One == [kind |-> "one"]
\* alpha**(1/n)
Root(n) == [kind |-> "root", n |-> n]
\* 1 - alpha**(1/n)
OneMinusRoot(n) == [kind |-> "oneMinusRoot", n |-> n]
\* beta.ppf(q, a, b) with q = num/den
BetaPpf(num, den, a, b) ==
    [kind |-> "ppf", num |-> num, den |-> den, a |-> a, b |-> b]

\* x <= p/d, for 0 <= p <= d and d > 0.
LeqRat(x, p, d) ==
    CASE x.kind = "zero" -> 0 <= p
      [] x.kind = "one" -> d <= p
      [] x.kind = "root" -> Pow(d, x.n) <= AlphaDen * Pow(p, x.n)
      [] x.kind = "oneMinusRoot" -> Pow(d, x.n) >= AlphaDen * Pow(d - p, x.n)
      [] x.kind = "ppf" ->
            x.num * Pow(d, x.a + x.b - 1)
                <= x.den * BinTail(x.a + x.b - 1, x.a, p, d)

\* x >= p/d, for 0 <= p <= d and d > 0.
GeqRat(x, p, d) ==
    CASE x.kind = "zero" -> p <= 0
      [] x.kind = "one" -> p <= d
      [] x.kind = "root" -> Pow(d, x.n) >= AlphaDen * Pow(p, x.n)
      [] x.kind = "oneMinusRoot" -> Pow(d, x.n) <= AlphaDen * Pow(d - p, x.n)
      [] x.kind = "ppf" ->
            x.num * Pow(d, x.a + x.b - 1)
                >= x.den * BinTail(x.a + x.b - 1, x.a, p, d)

\* x * 100
Percent(x) == [pct |-> x]

\* Mutant: the two quantiles of the beta distribution are exchanged.
wilson_ci_SwappedQuantiles(k, n) ==
    IF n = 0 THEN [lower |-> Percent(Zero), upper |-> Percent(Zero)]
    ELSE IF k = 0
         THEN [lower |-> Percent(Zero), upper |-> Percent(OneMinusRoot(n))]
    ELSE IF k = n
         THEN [lower |-> Percent(Root(n)), upper |-> Percent(One)]
    ELSE [lower |-> Percent(BetaPpf(2 * AlphaDen - 1, 2 * AlphaDen, k, n - k + 1)),
          upper |-> Percent(BetaPpf(1, 2 * AlphaDen, k + 1, n - k))]

wilson_ci(k, n) ==
    IF n = 0 THEN [lower |-> Percent(Zero), upper |-> Percent(Zero)]
    ELSE IF k = 0
         THEN [lower |-> Percent(Zero), upper |-> Percent(OneMinusRoot(n))]
    ELSE IF k = n
         THEN [lower |-> Percent(Root(n)), upper |-> Percent(One)]
    ELSE [lower |-> Percent(BetaPpf(1, 2 * AlphaDen, k, n - k + 1)),
          upper |-> Percent(BetaPpf(2 * AlphaDen - 1, 2 * AlphaDen, k + 1, n - k))]

WilsonInit ==
    /\ SweepIdle
    /\ PopIdle
    /\ GridIdle
    /\ BootIdle
    /\ BinsIdle
    /\ wilsonPc = "call"
    /\ wilsonArgs \in WilsonArgsSet
    /\ wilsonResult = NoInterval

\* A script calls its wilson_ci(k, n).
Wilson_Call ==
    /\ wilsonPc = "call"
    /\ wilsonResult' = wilson_ci(wilsonArgs.k, wilsonArgs.n)
    /\ wilsonPc' = "returned"
    /\ UNCHANGED wilsonArgs
    /\ UNCHANGED wilsonFrame

WilsonNext == Wilson_Call

SpecWilson == WilsonInit /\ [][WilsonNext]_vars

\* A percentage compared with 100 * p / d.
PctLeq(x, p, d) == LeqRat(x.pct, p, d)
PctGeq(x, p, d) == GeqRat(x.pct, p, d)

\* C17: wilson_ci(k, n) with 0 <= k <= n returns (0, 0) when n = 0, and when
\* n >= 1 an interval with 0 <= lower <= 100*k/n <= upper <= 100, whose lower
\* bound is 0 when k = 0 and whose upper bound is 100 when k = n.
C17_WilsonInterval ==
    wilsonPc = "returned" =>
        LET k == wilsonArgs.k
            n == wilsonArgs.n
            lower == wilsonResult.lower
            upper == wilsonResult.upper
        IN IF n = 0
           THEN /\ PctLeq(lower, 0, 1) /\ PctGeq(lower, 0, 1)
                /\ PctLeq(upper, 0, 1) /\ PctGeq(upper, 0, 1)
           ELSE /\ PctGeq(lower, 0, 1)
                /\ PctLeq(lower, k, n)
                /\ PctGeq(upper, k, n)
                /\ PctLeq(upper, 1, 1)
                /\ k = 0 => PctLeq(lower, 0, 1)
                /\ k = n => PctGeq(upper, 1, 1)

\* C17 witness: an interval from the beta quantiles, strictly inside (0, 100)
\* and strictly around the observed rate.
C17_Witness ==
    /\ wilsonPc = "returned"
    /\ 0 < wilsonArgs.k
    /\ wilsonArgs.k < wilsonArgs.n
    /\ ~PctLeq(wilsonResult.lower, 0, 1)
    /\ ~PctGeq(wilsonResult.lower, wilsonArgs.k, wilsonArgs.n)
    /\ ~PctLeq(wilsonResult.upper, wilsonArgs.k, wilsonArgs.n)
    /\ ~PctGeq(wilsonResult.upper, 1, 1)

----------------------------------------------------------------------------
\* bootstrap_analysis.py: bootstrap_rate, with alpha = 0.05.  Rates and
\* statistics are exact fractions; floating-point rounding is left out.

\* Largest number of outcomes of the model.
MaxData == 3

\* Largest number of bootstrap iterations of the model.
MaxBoot == 3

DataSets == UNION {[1..m -> BOOLEAN] : m \in 0..MaxData}

\* Number of True outcomes of a boolean sequence.
CountTrue(s) == Cardinality({j \in 1..Len(s) : s[j]})

\* sample.mean() * 100
RateOf(s) == [num |-> 100 * CountTrue(s), den |-> Len(s)]

\* The numerators of the rates, ascending (np.percentile sorts its input).
SortedNums(rates) ==
    LET N == Len(rates)
        nums == {rates[j].num : j \in 1..N}
    IN CHOOSE s \in [1..N -> nums] :
         /\ \A j \in 1..(N - 1) : s[j] <= s[j + 1]
         /\ \A v \in nums : Cardinality({j \in 1..N : s[j] = v})
                            = Cardinality({j \in 1..N : rates[j].num = v})

\* np.percentile(rates, q) for q = qn/40 * 100 with linear interpolation: the
\* value at the fractional position h = (N-1) * qn/40 of the sorted rates.
percentile(rates, qn) ==
    LET N == Len(rates)
        s == SortedNums(rates)
        lo == ((N - 1) * qn) \div 40
        fr == ((N - 1) * qn) % 40
        a == s[lo + 1]
        b == IF fr = 0 THEN a ELSE s[lo + 2]
    IN [num |-> 40 * a + fr * (b - a), den |-> 40 * rates[1].den]

\* Statistics of an empty list of rates: NaN.
NanStats == [status |-> "nan",
             mean |-> [num |-> 0, den |-> 1],
             std |-> [sqrtOf |-> [num |-> 0, den |-> 1]],
             CI_low |-> [num |-> 0, den |-> 1],
             CI_high |-> [num |-> 0, den |-> 1]]

\* The return value for empty data.
ZeroStats == [status |-> "ok",
              mean |-> [num |-> 0, den |-> 1],
              std |-> [sqrtOf |-> [num |-> 0, den |-> 1]],
              CI_low |-> [num |-> 0, den |-> 1],
              CI_high |-> [num |-> 0, den |-> 1]]

\* Mutant: the two percentiles are exchanged.
BootStats_SwappedPercentiles(rates) ==
    LET N == Len(rates)
        n == rates[1].den
        S == SumFrom([j \in 1..N |-> rates[j].num], 1, N)
        SS == SumFrom([j \in 1..N |-> (N * rates[j].num - S) * (N * rates[j].num - S)],
                      1, N)
    IN [status |-> "ok",
        mean |-> [num |-> S, den |-> n * N],
        std |-> [sqrtOf |-> [num |-> SS, den |-> n * n * N * N * N]],
        CI_low |-> percentile(rates, 39),
        CI_high |-> percentile(rates, 1)]

\* mean, std and the alpha/2 and 1 - alpha/2 percentiles of the rates.
BootStats(rates) ==
    LET N == Len(rates)
        n == rates[1].den
        S == SumFrom([j \in 1..N |-> rates[j].num], 1, N)
        SS == SumFrom([j \in 1..N |-> (N * rates[j].num - S) * (N * rates[j].num - S)],
                      1, N)
    IN [status |-> "ok",
        mean |-> [num |-> S, den |-> n * N],
        std |-> [sqrtOf |-> [num |-> SS, den |-> n * n * N * N * N]],
        CI_low |-> percentile(rates, 1),
        CI_high |-> percentile(rates, 39)]

BootInit ==
    /\ SweepIdle
    /\ PopIdle
    /\ GridIdle
    /\ WilsonIdle
    /\ BinsIdle
    /\ bootPc = "entry"
    /\ data \in DataSets
    /\ n_iterations \in 0..MaxBoot
    /\ sample = <<>>
    /\ bootstrap_rates = <<>>
    /\ bootResult = NoStats

\* bootstrap_rate: empty data returns zeros, otherwise the loop starts.
Boot_Enter ==
    /\ bootPc = "entry"
    /\ IF Len(data) = 0
       THEN bootPc' = "returned" /\ bootResult' = ZeroStats
       ELSE bootPc' = "loop" /\ UNCHANGED bootResult
    /\ UNCHANGED <<data, n_iterations, sample, bootstrap_rates>>
    /\ UNCHANGED bootFrame

\* One iteration: np.random.choice(data, size=n, replace=True) and its rate.
Boot_Resample ==
    /\ bootPc = "loop"
    /\ Len(bootstrap_rates) < n_iterations
    /\ \E idx \in [1..Len(data) -> 1..Len(data)] :
         /\ sample' = [j \in 1..Len(data) |-> data[idx[j]]]
         /\ bootstrap_rates' = Append(bootstrap_rates, RateOf(sample'))
    /\ UNCHANGED <<bootPc, data, n_iterations, bootResult>>
    /\ UNCHANGED bootFrame

\* After the loop: the statistics of the rates.  With no rates the mean and std
\* are NaN, and np.percentile gives NaN or raises, depending on the numpy
\* version.
Boot_Stats ==
    /\ bootPc = "loop"
    /\ Len(bootstrap_rates) = n_iterations
    /\ IF n_iterations = 0
       THEN \/ bootPc' = "returned" /\ bootResult' = NanStats
            \/ bootPc' = "raised" /\ UNCHANGED bootResult
       ELSE bootPc' = "returned" /\ bootResult' = BootStats(bootstrap_rates)
    /\ UNCHANGED <<data, n_iterations, sample, bootstrap_rates>>
    /\ UNCHANGED bootFrame

BootNext == Boot_Enter \/ Boot_Resample \/ Boot_Stats

SpecBoot == BootInit /\ [][BootNext]_vars

\* a <= b for fractions with positive denominators.
FracLeq(a, b) == a.num * b.den <= b.num * a.den
\* a fraction equals the whole number r
FracIs(a, r) == a.num = r * a.den

\* The checks of C18 on a call with n >= 1 outcomes that has ended.
BootContract ==
    LET n == Len(data)
        res == bootResult
    IN /\ bootPc = "returned"
       /\ res.status = "ok"
       /\ Len(bootstrap_rates) = n_iterations
       /\ \A j \in 1..Len(bootstrap_rates) :
            \E c \in 0..n : bootstrap_rates[j].num * n = 100 * c * bootstrap_rates[j].den
       /\ FracLeq([num |-> 0, den |-> 1], res.CI_low)
       /\ FracLeq(res.CI_low, res.CI_high)
       /\ FracLeq(res.CI_high, [num |-> 100, den |-> 1])
       /\ \A b \in BOOLEAN :
            (\A j \in 1..n : data[j] = b) =>
                LET r == IF b THEN 100 ELSE 0
                IN /\ FracIs(res.mean, r)
                   /\ FracIs(res.CI_low, r)
                   /\ FracIs(res.CI_high, r)
                   /\ res.std.sqrtOf.num = 0

\* Every resample drawn has size n and holds outcomes of the data only.
ResampleOfData ==
    sample # <<>> =>
        /\ Len(sample) = Len(data)
        /\ \A j \in 1..Len(sample) : \E k \in 1..Len(data) : sample[j] = data[k]

\* C18, as stated: bootstrap_rate returns zeros for empty data; for n >= 1
\* outcomes it draws exactly n_iterations resamples of size n with
\* replacement, every rate is one of 0, 100/n, ..., 100, and
\* 0 <= CI_low <= CI_high <= 100; with all outcomes equal, mean = CI_low =
\* CI_high = that rate and std = 0.
C18_Original ==
    /\ ResampleOfData
    /\ bootPc \in {"returned", "raised"} =>
         IF Len(data) = 0
         THEN bootPc = "returned" /\ bootResult = ZeroStats
         ELSE BootContract

\* C18, amended: the same, for n >= 1 outcomes only when n_iterations >= 1.
C18_BootstrapRate ==
    /\ ResampleOfData
    /\ bootPc \in {"returned", "raised"} =>
         IF Len(data) = 0
         THEN bootPc = "returned" /\ bootResult = ZeroStats
         ELSE n_iterations >= 1 => BootContract

\* C18 witness: a call on mixed outcomes has returned an interval that is not
\* a point, and its last resample holds more successes than the data, which
\* only drawing with replacement can give.
C18_Witness ==
    /\ bootPc = "returned"
    /\ Len(data) >= 2
    /\ n_iterations >= 2
    /\ CountTrue(sample) > CountTrue(data)
    /\ ~FracLeq(bootResult.CI_high, bootResult.CI_low)
    /\ bootResult.std.sqrtOf.num > 0

----------------------------------------------------------------------------
\* alpha_sweep.py, run_population.py, analyze_alpha_sweep.py: result tables on
\* disk.  The only writer of a table is the run_population.py subprocess
\* (to_hdf, mode 'w') that run_simulation starts; removal or damage from
\* outside happens between invocations.

\* C19: while an invocation of the sweep script runs, an output file that
\* exists and passes validation stays as it is (it is not overwritten,
\* truncated or deleted), no simulation is started on it, and the analysis
\* step changes no output file.
C19_TablesNotMutated ==
    [][pc # "idle" =>
          /\ \A s \in Sims :
                files[s] = "valid" =>
                    /\ files'[s] = files[s]
                    /\ running' = s => running = s
          /\ pc = "analysis" => files' = files
      ]_vars

\* C19 witness: a later invocation has run a simulation to its end and then
\* the analysis, while the table of another simulation, valid since the scan,
\* was skipped and is still valid.
C19_Witness ==
    /\ pc = "done"
    /\ analysisRuns > 0
    /\ Len(started) > 0
    /\ procStarts > 0
    /\ outcome = "exit0"
    /\ \E s \in Sims : /\ filesAtScan[s] = "valid"
                       /\ s \notin Range(started)
                       /\ files[s] = "valid"

----------------------------------------------------------------------------
\* bootstrap_analysis.py: bootstrap_survival_by_lambda.  lambda_CE and the bin
\* edges are whole numbers of some small unit; the edges increase, as in the
\* array the caller passes.

\* Largest number of CE events of the model.
MaxEvents == 2

\* Largest lambda_CE of the model; the edges lie in 1..MaxLambda.
MaxLambda == 3

\* Largest number of bin edges of the model.
MaxEdges == 3

\* Largest n_iterations of a binned call of the model.
MaxBinBoot == 1

Events == [lambda_CE : 0..MaxLambda, survived_CE : BOOLEAN]

EventSets == UNION {[1..m -> Events] : m \in 0..MaxEvents}

EdgeSets ==
    UNION {{e \in [1..m -> 1..MaxLambda] : \A j \in 1..(m - 1) : e[j] < e[j + 1]} :
             m \in 2..MaxEdges}

\* Mutant: the upper edge belongs to the bin.
InBin_Closed(lam, bin_min, bin_max) == lam >= bin_min /\ lam <= bin_max

\* (ce_data['lambda_CE'] >= bin_min) & (ce_data['lambda_CE'] < bin_max)
InBin(lam, bin_min, bin_max) == lam >= bin_min /\ lam < bin_max

\* ce_data[mask]: the positions of the events of bin k, in order.
BinData(events, edges, k) ==
    SelectSeq([e \in 1..Len(events) |-> e],
              LAMBDA e : InBin(events[e].lambda_CE, edges[k], edges[k + 1]))

BinRow(edges, k, members, stats) ==
    [Lambda_Min |-> edges[k],
     Lambda_Max |-> edges[k + 1],
     N_Systems |-> Len(members),
     stats |-> stats]

BinsInit ==
    /\ SweepIdle
    /\ PopIdle
    /\ GridIdle
    /\ WilsonIdle
    /\ BootIdle
    /\ binsPc = "entry"
    /\ ce_data \in EventSets
    /\ lambda_bins \in EdgeSets
    /\ bins_n_iter \in 0..MaxBinBoot
    /\ bin = 0
    /\ bin_data = <<>>
    /\ bin_rates = <<>>
    /\ bin_results = <<>>
    /\ counted = [e \in 1..Len(ce_data) |-> 0]

\* n, n_bins and the empty result list; the loop starts at the first bin.
Bins_Enter ==
    /\ binsPc = "entry"
    /\ bin' = 1
    /\ binsPc' = "bin"
    /\ UNCHANGED <<ce_data, lambda_bins, bins_n_iter, bin_data, bin_rates,
                   bin_results, counted>>
    /\ UNCHANGED binsFrame

\* Loop body, first half: select the events of the bin; an empty bin is
\* skipped.
Bins_Mask ==
    /\ binsPc = "bin"
    /\ bin <= Len(lambda_bins) - 1
    /\ LET members == BinData(ce_data, lambda_bins, bin)
       IN /\ bin_data' = members
          /\ IF Len(members) = 0
             THEN /\ bin' = bin + 1
                  /\ UNCHANGED <<binsPc, counted>>
             ELSE /\ binsPc' = "boot"
                  /\ counted' = [e \in 1..Len(ce_data) |->
                                   IF e \in Range(members)
                                   THEN counted[e] + 1 ELSE counted[e]]
                  /\ UNCHANGED bin
    /\ bin_rates' = <<>>
    /\ UNCHANGED <<ce_data, lambda_bins, bins_n_iter, bin_results>>
    /\ UNCHANGED binsFrame

\* One bootstrap iteration of the bin: bin_data.sample(n, replace=True) and
\* its survival rate.
Bins_Resample ==
    /\ binsPc = "boot"
    /\ Len(bin_rates) < bins_n_iter
    /\ \E idx \in [1..Len(bin_data) -> 1..Len(bin_data)] :
         bin_rates' = Append(bin_rates,
             RateOf([j \in 1..Len(bin_data) |->
                        ce_data[bin_data[idx[j]]].survived_CE]))
    /\ UNCHANGED <<binsPc, ce_data, lambda_bins, bins_n_iter, bin, bin_data,
                   bin_results, counted>>
    /\ UNCHANGED binsFrame

\* Loop body, second half: append the row of the bin.  With no rates the
\* statistics are NaN, or np.percentile raises.
Bins_Append ==
    /\ binsPc = "boot"
    /\ Len(bin_rates) = bins_n_iter
    /\ IF bins_n_iter = 0
       THEN \/ /\ bin_results' = Append(bin_results,
                      BinRow(lambda_bins, bin, bin_data, NanStats))
               /\ bin' = bin + 1
               /\ binsPc' = "bin"
            \/ /\ binsPc' = "raised"
               /\ UNCHANGED <<bin, bin_results>>
       ELSE /\ bin_results' = Append(bin_results,
                   BinRow(lambda_bins, bin, bin_data, BootStats(bin_rates)))
            /\ bin' = bin + 1
            /\ binsPc' = "bin"
    /\ UNCHANGED <<ce_data, lambda_bins, bins_n_iter, bin_data, bin_rates, counted>>
    /\ UNCHANGED binsFrame

\* return pd.DataFrame(bin_results)
Bins_Return ==
    /\ binsPc = "bin"
    /\ bin > Len(lambda_bins) - 1
    /\ binsPc' = "returned"
    /\ UNCHANGED <<ce_data, lambda_bins, bins_n_iter, bin, bin_data, bin_rates,
                   bin_results, counted>>
    /\ UNCHANGED binsFrame

BinsNext ==
    Bins_Enter \/ Bins_Mask \/ Bins_Resample \/ Bins_Append \/ Bins_Return

SpecBins == BinsInit /\ [][BinsNext]_vars

\* The events whose lambda_CE lies in [lo, hi).
EventsIn(lo, hi) ==
    {e \in 1..Len(ce_data) : lo <= ce_data[e].lambda_CE /\ ce_data[e].lambda_CE < hi}

\* C20: when bootstrap_survival_by_lambda returns, every event was counted in
\* at most one bin; an event below the first edge or at or above the last
\* edge was counted in none; every row belongs to a bin with events, one row
\* per such bin, and its N_Systems is the number of events in
\* [Lambda_Min, Lambda_Max); the N_Systems sum is at most the number of
\* events.
C20_HalfOpenBins ==
    binsPc = "returned" =>
        LET n_bins == Len(lambda_bins) - 1
            rows == bin_results
        IN /\ \A e \in 1..Len(ce_data) :
                /\ counted[e] <= 1
                /\ (\/ ce_data[e].lambda_CE < lambda_bins[1]
                    \/ ce_data[e].lambda_CE >= lambda_bins[Len(lambda_bins)])
                      => counted[e] = 0
           /\ \A r \in 1..Len(rows) :
                /\ rows[r].N_Systems >= 1
                /\ rows[r].N_Systems
                      = Cardinality(EventsIn(rows[r].Lambda_Min, rows[r].Lambda_Max))
           /\ \A k \in 1..n_bins :
                Cardinality({r \in 1..Len(rows) :
                                /\ rows[r].Lambda_Min = lambda_bins[k]
                                /\ rows[r].Lambda_Max = lambda_bins[k + 1]})
                  = IF EventsIn(lambda_bins[k], lambda_bins[k + 1]) = {} THEN 0 ELSE 1
           /\ SumFrom([r \in 1..Len(rows) |-> rows[r].N_Systems], 1, Len(rows))
                  <= Len(ce_data)
           /\ SumFrom([r \in 1..Len(rows) |-> rows[r].N_Systems], 1, Len(rows))
                  = SumFrom(counted, 1, Len(ce_data))

\* C20 witness: the call has returned one row; its bin holds an event that
\* sits on an inner edge, the bin below that edge was empty, and another event
\* sits on the last edge and was counted nowhere.
C20_Witness ==
    /\ binsPc = "returned"
    /\ Len(lambda_bins) = 3
    /\ Len(bin_results) = 1
    /\ \E e, f \in 1..Len(ce_data) :
          /\ ce_data[e].lambda_CE = lambda_bins[2]
          /\ counted[e] = 1
          /\ ce_data[f].lambda_CE = lambda_bins[3]
          /\ counted[f] = 0
====
